---- MODULE Spec2Model ----
(***************************************************************************)
(* A model of fknauf/ranking-utils:                                        *)
(*   - training.py: the BCE / pairwise training loops with gradient        *)
(*     accumulation and per-epoch checkpoints, run by one process or by    *)
(*     several, and the hard-negative selector _get_max_loss_neg_batch;    *)
(*   - lightning/base_ranker.py: validation_epoch_end (MAP, MRR@k);        *)
(*   - ranking_utils/util.py: read_predictions, write_trec_eval_file.      *)
(* Each part has its own specification over its own variables; the other   *)
(* variables stay at their idle value.                                     *)
(***************************************************************************)
EXTENDS Integers, Sequences, FiniteSets, TLC

VARIABLES
    \* ---- training loop (train_model_bce / train_model_pairwise)
    train_fn,            \* which loop runs: "bce" or "pairwise"
    args_epochs,         \* args.epochs
    len_dl,              \* len(train_dl): batches per epoch
    accumulate_batches,  \* args.accumulate_batches
    epoch,               \* next value of `epoch` in range(args.epochs)
    it,                  \* position of enumerate(train_dl)
    i,                   \* the loop variable i (-1: not bound yet)
    tpc,                 \* position in the loop
    grad,                \* batches whose gradient is summed in .grad
    optimizer_steps,     \* number of optimizer.step() applied to the weights
    steps,               \* history: the gradient each optimizer.step() applied
    dropped,             \* history: the gradients a zero_grad() threw away unapplied
    events,              \* history: backward passes and checkpoint writes, in order
    files,               \* the checkpoint directory: file name -> content
    dl_losses,           \* the loss of each batch of train_dl, before scaling
    loss_sum,            \* loss_sum
    batch_losses,        \* history: the loss of each batch of the epoch, before scaling
    train_log,           \* the rows logger.log appended to train.csv
    \* ---- hard-negative selector (_get_max_loss_neg_batch)
    sel_model,           \* the scoring model
    criterion,           \* the pairwise loss function
    layout,              \* how neg_inputs is laid out: "rows" or "batches"
    has_multiple_inputs, \* whether an input is a list of tensors, one per field
    pos_inputs,          \* the batch of positive examples
    neg_inputs,          \* the list of tensors of negative examples
    num_neg_examples,    \* number of negative examples per query
    losses,              \* the stacked loss matrix
    max_loss_ids,        \* torch.argmax(losses, dim=1)
    max_neg_inputs,      \* what the selector returns (or raises)
    spc,                 \* "call" before the selector ran, "returned" after
    \* ---- validation (BaseRanker.validation_epoch_end)
    val_results,         \* the evaluation records, in loader order
    uses_ddp,            \* whether validation runs on several workers
    shard,               \* the worker each query is on
    rr_k,                \* self.rr_k
    val_map,             \* the logged val_map
    val_mrr,             \* the logged val_mrr
    vpc,                 \* "collected", "logged" (first pass), "relogged" (a later pass)
    \* ---- export (read_predictions, write_trec_eval_file)
    pred_files,          \* the worker prediction files, in read order
    fidx,                \* number of files read so far
    result,              \* read_predictions' table
    trec_rows,           \* the rows of the TREC run file
    xpc,                 \* "read" (reading files), "write" (table returned), "written"
    \* ---- several workers running the training loop
    w_dir,               \* the working_dir each worker is given
    w_epochs,            \* each worker's args.epochs
    w_epoch,             \* each worker's epoch
    w_pc,                \* each worker's position
    w_written            \* the pairs <<file, worker>>: the worker wrote the file

trainVars == <<train_fn, args_epochs, len_dl, accumulate_batches, epoch, it, i, tpc,
               grad, optimizer_steps, steps, dropped, events, files,
               dl_losses, loss_sum, batch_losses, train_log>>

selVars == <<sel_model, criterion, layout, has_multiple_inputs, pos_inputs, neg_inputs,
             num_neg_examples, losses, max_loss_ids, max_neg_inputs, spc>>

valVars == <<val_results, uses_ddp, shard, rr_k, val_map, val_mrr, vpc>>

expVars == <<pred_files, fidx, result, trec_rows, xpc>>

wrkVars == <<w_dir, w_epochs, w_epoch, w_pc, w_written>>

vars == <<trainVars, selVars, valVars, expVars, wrkVars>>

\* The value of each part's variables while another part is checked.
TrainIdle ==
    /\ train_fn = "none" /\ args_epochs = 0 /\ len_dl = 0 /\ accumulate_batches = 1
    /\ epoch = 0 /\ it = 0 /\ i = -1 /\ tpc = "idle" /\ grad = <<>>
    /\ optimizer_steps = 0 /\ steps = <<>> /\ dropped = <<>> /\ events = <<>>
    /\ files = <<>>
    /\ dl_losses = <<>>
    /\ loss_sum = <<0, 1>> /\ batch_losses = <<>> /\ train_log = <<>>

SelIdle ==
    /\ sel_model = "none" /\ criterion = "none" /\ layout = "none"
    /\ has_multiple_inputs = FALSE
    /\ pos_inputs = <<>> /\ neg_inputs = <<>> /\ num_neg_examples = 0
    /\ losses = <<>> /\ max_loss_ids = <<>>
    /\ max_neg_inputs = [raised |-> "none", rows |-> <<>>] /\ spc = "idle"

ValIdle ==
    /\ val_results = <<>> /\ uses_ddp = FALSE /\ shard = <<>> /\ rr_k = 0
    /\ val_map = <<0, 1>> /\ val_mrr = <<0, 1>> /\ vpc = "idle"

ExpIdle ==
    /\ pred_files = <<>> /\ fidx = 0 /\ result = <<>> /\ trec_rows = <<>>
    /\ xpc = "idle"

WrkIdle ==
    /\ w_dir = <<>> /\ w_epochs = <<>> /\ w_epoch = <<>> /\ w_pc = <<>>
    /\ w_written = {}

----------------------------------------------------------------------------
(* Helpers *)

Range(s) == {s[k] : k \in DOMAIN s}

\* The decimal digits of n, most significant first (n >= 0).
RECURSIVE Digits(_)
Digits(n) == IF n < 10 THEN <<n>> ELSE Append(Digits(n \div 10), n % 10)

RECURSIVE ZeroPad(_, _)
ZeroPad(ds, width) == IF Len(ds) >= width THEN ds ELSE ZeroPad(<<0>> \o ds, width)

----------------------------------------------------------------------------
(* Fractions: losses and metric values are rationals <<numerator, denominator>> in lowest
   terms, denominator > 0. *)

RECURSIVE Gcd(_, _)
Gcd(a, b) == IF b = 0 THEN a ELSE Gcd(b, a % b)

Frac(n, d) == IF n = 0 THEN <<0, 1>> ELSE <<n \div Gcd(n, d), d \div Gcd(n, d)>>

FracAdd(x, y) == Frac(x[1] * y[2] + y[1] * x[2], x[2] * y[2])

FracDivInt(x, n) == Frac(x[1], x[2] * n)

RECURSIVE FracSum(_)
FracSum(xs) == IF xs = <<>> THEN <<0, 1>> ELSE FracAdd(Head(xs), FracSum(Tail(xs)))

\* torch.mean(torch.stack(xs))
TorchSum(xs) == FracSum(xs)
TorchMean(xs) == FracDivInt(FracSum(xs), Len(xs))

----------------------------------------------------------------------------
(* training.py: checkpoints *)

MaxEpochs == 3
MaxBatches == 4
MaxAccum == 3

\* The one working directory of a single run.
WorkingDir == <<"wd">>

\* os.path.join(args.working_dir, 'ckpt')
CkptDirShared(working_dir) == <<"ckpt">>
CkptDir(working_dir) == Append(working_dir, "ckpt")

\* 'weights_{:03d}.pt'.format(epoch): the epoch's digits, zero-padded to width 3.
WeightsNameConst(e) == <<"weights_", <<0, 0, 0>>, ".pt">>
WeightsName(e) == <<"weights_", ZeroPad(Digits(e), 3), ".pt">>

\* os.path.join(ckpt_dir, 'weights_{:03d}.pt'.format(epoch))
CkptFile(ckpt_dir, e) == Append(ckpt_dir, WeightsName(e))

\* A file opened for writing and not yet written through.
PartialFile == [complete |-> FALSE, epoch |-> -1, batch |-> -1,
                state_dict |-> -1, optimizer |-> -1]

\* state = {'epoch': epoch, 'batch': i, 'state_dict': ..., 'optimizer': ...}
CkptState == [complete |-> TRUE, epoch |-> epoch, batch |-> i,
              state_dict |-> optimizer_steps, optimizer |-> optimizer_steps]

WriteFile(fs, name, content) ==
    [n \in (DOMAIN fs) \cup {name} |-> IF n = name THEN content ELSE fs[n]]

----------------------------------------------------------------------------
(* training.py: train_model_bce / train_model_pairwise *)

\* The values criterion(...) (bce), resp. torch.mean(criterion(...)) (pairwise),
\* takes on a batch.
BatchLosses == {1, 2}

\* dl_losses[b + 1] is the loss of batch b of the loader, in every epoch.
TrainInit ==
    /\ train_fn \in {"bce", "pairwise"}
    /\ args_epochs \in 0..MaxEpochs
    /\ len_dl \in 0..MaxBatches
    /\ accumulate_batches \in 1..MaxAccum
    /\ epoch = 0
    /\ it = 0
    /\ i = -1
    /\ tpc = "for_epoch"
    /\ grad = <<>>
    /\ optimizer_steps = 0
    /\ steps = <<>>
    /\ dropped = <<>>
    /\ events = <<>>
    /\ files = <<>>
    /\ dl_losses \in [1..len_dl -> BatchLosses]
    /\ loss_sum = <<0, 1>>
    /\ batch_losses = <<>>
    /\ train_log = <<>>

\* loss = loss / args.accumulate_batches
ScaledLoss(l, n) == Frac(l, n)

\* epoch_loss = loss_sum / len(train_dl)
EpochLoss(sum, len) == FracDivInt(sum, len)

\* optimizer.zero_grad(): what was summed and not applied is lost.
ZeroGradKeep(g) == g
ZeroGrad(g) == <<>>

\* What a zero_grad() at the start of an epoch throws away: gradients summed
\* since the last optimizer.step().
Unapplied(g) == IF g = <<>> THEN <<>> ELSE <<g>>

\* for epoch in range(args.epochs): optimizer.zero_grad(); loss_sum = 0
TrainEpochStart ==
    /\ tpc = "for_epoch"
    /\ epoch < args_epochs
    /\ grad' = ZeroGrad(grad)
    /\ dropped' = dropped \o Unapplied(grad)
    /\ loss_sum' = <<0, 1>>
    /\ batch_losses' = <<>>
    /\ it' = 0
    /\ tpc' = "for_batch"
    /\ UNCHANGED <<train_fn, args_epochs, len_dl, accumulate_batches, epoch, i,
                   optimizer_steps, steps, events, files, dl_losses, train_log>>
    /\ UNCHANGED <<selVars, valVars, expVars, wrkVars>>

\* range(args.epochs) is exhausted: the function returns.
TrainReturn ==
    /\ tpc = "for_epoch"
    /\ epoch >= args_epochs
    /\ tpc' = "done"
    /\ UNCHANGED <<train_fn, args_epochs, len_dl, accumulate_batches, epoch, it, i,
                   grad, optimizer_steps, steps, dropped, events, files>>
    /\ UNCHANGED <<dl_losses, loss_sum, batch_losses, train_log>>
    /\ UNCHANGED <<selVars, valVars, expVars, wrkVars>>

\* Whether enumerate(train_dl) yields another batch.
HasNextBatchOffByOne == it + 1 < len_dl
HasNextBatch == it < len_dl

\* One batch: forward pass, loss / accumulate_batches, loss_sum += loss.item(),
\* loss.backward().
TrainBatch ==
    /\ tpc = "for_batch"
    /\ HasNextBatch
    /\ loss_sum' = FracAdd(loss_sum, ScaledLoss(dl_losses[it + 1], accumulate_batches))
    /\ batch_losses' = Append(batch_losses, dl_losses[it + 1])
    /\ i' = it
    /\ it' = it + 1
    /\ grad' = Append(grad, <<epoch, it>>)
    /\ events' = Append(events, [op |-> "backward", epoch |-> epoch, batch |-> it])
    /\ tpc' = "accumulate"
    /\ UNCHANGED <<train_fn, args_epochs, len_dl, accumulate_batches, epoch,
                   optimizer_steps, steps, dropped, files, dl_losses, train_log>>
    /\ UNCHANGED <<selVars, valVars, expVars, wrkVars>>

\* if (i + 1) % args.accumulate_batches == 0
StepDue == (i + 1) % accumulate_batches = 0

\* optimizer.step()
TrainStep ==
    /\ tpc = "accumulate"
    /\ StepDue
    /\ optimizer_steps' = optimizer_steps + 1
    /\ steps' = Append(steps, grad)
    /\ tpc' = "zero_grad"
    /\ UNCHANGED <<train_fn, args_epochs, len_dl, accumulate_batches, epoch, it, i,
                   grad, dropped, events, files>>
    /\ UNCHANGED <<dl_losses, loss_sum, batch_losses, train_log>>
    /\ UNCHANGED <<selVars, valVars, expVars, wrkVars>>

\* The condition is false: on to the next batch.
TrainNoStep ==
    /\ tpc = "accumulate"
    /\ ~StepDue
    /\ tpc' = "for_batch"
    /\ UNCHANGED <<train_fn, args_epochs, len_dl, accumulate_batches, epoch, it, i,
                   grad, optimizer_steps, steps, dropped, events, files>>
    /\ UNCHANGED <<dl_losses, loss_sum, batch_losses, train_log>>
    /\ UNCHANGED <<selVars, valVars, expVars, wrkVars>>

\* optimizer.zero_grad() after the step: the gradients it clears were applied.
TrainZeroGrad ==
    /\ tpc = "zero_grad"
    /\ grad' = ZeroGrad(grad)
    /\ tpc' = "for_batch"
    /\ UNCHANGED <<train_fn, args_epochs, len_dl, accumulate_batches, epoch, it, i,
                   optimizer_steps, steps, dropped, events, files>>
    /\ UNCHANGED <<dl_losses, loss_sum, batch_losses, train_log>>
    /\ UNCHANGED <<selVars, valVars, expVars, wrkVars>>

\* epoch_loss = loss_sum / len(train_dl); logger.log([epoch, epoch_loss])
\* With an empty loader the division raises ZeroDivisionError.
TrainLog ==
    /\ tpc = "for_batch"
    /\ ~HasNextBatch
    /\ \/ /\ len_dl = 0
          /\ train_log' = train_log
          /\ tpc' = "raised"
       \/ /\ len_dl > 0
          /\ train_log' = Append(train_log, <<epoch, EpochLoss(loss_sum, len_dl)>>)
          /\ tpc' = "save"
    /\ UNCHANGED <<train_fn, args_epochs, len_dl, accumulate_batches, epoch, it, i,
                   grad, optimizer_steps, steps, dropped, events, files>>
    /\ UNCHANGED <<dl_losses, loss_sum, batch_losses>>
    /\ UNCHANGED <<selVars, valVars, expVars, wrkVars>>

\* save_checkpoint: torch.save opens fname for writing ...
TrainSaveOpen ==
    /\ tpc = "save"
    /\ files' = WriteFile(files, CkptFile(CkptDir(WorkingDir), epoch), PartialFile)
    /\ tpc' = "saving"
    /\ UNCHANGED <<train_fn, args_epochs, len_dl, accumulate_batches, epoch, it, i,
                   grad, optimizer_steps, steps, dropped, events>>
    /\ UNCHANGED <<dl_losses, loss_sum, batch_losses, train_log>>
    /\ UNCHANGED <<selVars, valVars, expVars, wrkVars>>

\* ... and writes the state; the loop goes on to the next epoch.
TrainSaveWrite ==
    /\ tpc = "saving"
    /\ files' = WriteFile(files, CkptFile(CkptDir(WorkingDir), epoch), CkptState)
    /\ events' = Append(events, [op |-> "save", epoch |-> epoch, batch |-> i])
    /\ epoch' = epoch + 1
    /\ tpc' = "for_epoch"
    /\ UNCHANGED <<train_fn, args_epochs, len_dl, accumulate_batches, it, i,
                   grad, optimizer_steps, steps, dropped>>
    /\ UNCHANGED <<dl_losses, loss_sum, batch_losses, train_log>>
    /\ UNCHANGED <<selVars, valVars, expVars, wrkVars>>

\* The process is terminated from outside, at any point of the run.
TrainKilled ==
    /\ tpc \notin {"done", "raised", "killed"}
    /\ tpc' = "killed"
    /\ UNCHANGED <<train_fn, args_epochs, len_dl, accumulate_batches, epoch, it, i,
                   grad, optimizer_steps, steps, dropped, events, files>>
    /\ UNCHANGED <<dl_losses, loss_sum, batch_losses, train_log>>
    /\ UNCHANGED <<selVars, valVars, expVars, wrkVars>>

TrainNext ==
    \/ TrainEpochStart
    \/ TrainReturn
    \/ TrainBatch
    \/ TrainStep
    \/ TrainNoStep
    \/ TrainZeroGrad
    \/ TrainLog
    \/ TrainSaveOpen
    \/ TrainSaveWrite
    \/ TrainKilled

TrainStart == TrainInit /\ SelIdle /\ ValIdle /\ ExpIdle /\ WrkIdle

SpecTrain == TrainStart /\ [][TrainNext]_vars

----------------------------------------------------------------------------
(* training.py: _get_max_loss_neg_batch (single-tensor inputs) *)

\* Rows of one call: B positives and B * K negatives, B + B * K <= MaxRows.
MaxRows == 6

\* An example is an opaque input; the model maps it to a score.
Examples == {0, 1, 2}

Models == {"identity", "reversed", "parity"}

\* model(inputs), for one row
Model(m, x) ==
    CASE m = "identity" -> x
      [] m = "reversed" -> 2 - x
      [] m = "parity" -> x % 2

Criteria == [kind : {"hinge", "square"}, margin : {0, 1}]

\* criterion(pos_scores, neg_scores), for one row
Criterion(c, p, n) ==
    CASE c.kind = "hinge" -> IF c.margin - p + n > 0 THEN c.margin - p + n ELSE 0
      [] c.kind = "square" -> (c.margin - p + n) * (c.margin - p + n)

\* model(batch): one score per row
Scores(m, batch) == [r \in DOMAIN batch |-> Model(m, batch[r])]

\* pos_scores.repeat(n, 1): the whole batch n times over
RepeatTiled(s, n) == [j \in 1..(Len(s) * n) |-> s[((j - 1) % Len(s)) + 1]]
\* pos_scores.repeat_interleave(n, dim=0): each row n times in a row
RepeatInterleave(s, n) == [j \in 1..(Len(s) * n) |-> s[((j - 1) \div n) + 1]]

\* torch.cat(tensors): the rows of the tensors, one tensor after the other
RECURSIVE Cat(_)
Cat(ts) == IF ts = <<>> THEN <<>> ELSE Head(ts) \o Cat(Tail(ts))

\* criterion over two aligned score vectors
PairLosses(c, ps, ns) == [j \in DOMAIN ps |-> Criterion(c, ps[j], ns[j])]

\* torch.stack(torch.split(v, n)): consecutive chunks of n as the rows of a matrix
SplitStack(v, n) == [r \in 1..(Len(v) \div n) |-> SubSeq(v, (r - 1) * n + 1, r * n)]

\* torch.argmax over one row: the first index of the largest entry
ArgminRow(row) ==
    CHOOSE k \in DOMAIN row :
        /\ \A j \in DOMAIN row : row[j] >= row[k]
        /\ \A j \in DOMAIN row : j < k => row[j] > row[k]
ArgmaxRow(row) ==
    CHOOSE k \in DOMAIN row :
        /\ \A j \in DOMAIN row : row[j] <= row[k]
        /\ \A j \in DOMAIN row : j < k => row[j] < row[k]

\* neg_inputs[i][idx] is in range
InRange(neg, r, k) == r \in DOMAIN neg /\ k \in DOMAIN neg[r]

\* for i, idx in enumerate(max_loss_ids): max_neg_inputs.append(neg_inputs[i][idx])
\* return torch.stack(max_neg_inputs)
GatherRows(neg, ids) ==
    IF \E r \in DOMAIN ids : ~InRange(neg, r, ids[r])
    THEN [raised |-> "IndexError", rows |-> <<>>]
    ELSE [raised |-> "none", rows |-> [r \in DOMAIN ids |-> neg[r][ids[r]]]]

\* The loss matrix of lines 175-194.
LossMatrix(m, c, pos, neg, n) ==
    SplitStack(PairLosses(c, RepeatInterleave(Scores(m, pos), n), Scores(m, Cat(neg))), n)

\* ---- has_multiple_inputs: pos_inputs is a list of tensors, one per field, and
\* neg_inputs a list, one per field, of the tensors of candidates.

FieldCounts == {1, 2}
FieldValues == {0, 1}
FieldModels == {"sum", "last"}
FieldCriteria == {c \in Criteria : c.margin = 1}

RECURSIVE SumSeq(_)
SumSeq(xs) == IF xs = <<>> THEN 0 ELSE Head(xs) + SumSeq(Tail(xs))

\* model(*inputs), for one row: xs holds the row's value of every field
FieldModel(m, xs) ==
    CASE m = "sum" -> SumSeq(xs)
      [] m = "last" -> xs[Len(xs)]

\* model(*inputs): one score per row
ScoresFields(m, inputs) ==
    [r \in DOMAIN inputs[1] |-> FieldModel(m, [f \in DOMAIN inputs |-> inputs[f][r]])]

\* [torch.cat(x) for x in neg_inputs]
CatFields(neg) == [f \in DOMAIN neg |-> Cat(neg[f])]

\* The loss matrix of lines 175-194, has_multiple_inputs.
LossMatrixFields(m, c, pos, neg, n) ==
    SplitStack(PairLosses(c, RepeatInterleave(ScoresFields(m, pos), n),
                          ScoresFields(m, CatFields(neg))), n)

\* for i in range(len(neg_inputs)): for j, idx in enumerate(max_loss_ids):
\*     max_neg_inputs[i].append(neg_inputs[i][j][idx])
\* return [torch.stack(x) for x in max_neg_inputs]
GatherFieldsFirstOnly(neg, ids) ==
    [raised |-> "none",
     rows |-> [f \in DOMAIN neg |->
                 [r \in DOMAIN ids |-> neg[f][r][IF f = 1 THEN ids[r] ELSE 1]]]]
GatherFields(neg, ids) ==
    IF \E f \in DOMAIN neg : \E r \in DOMAIN ids : ~InRange(neg[f], r, ids[r])
    THEN [raised |-> "IndexError", rows |-> <<>>]
    ELSE [raised |-> "none",
          rows |-> [f \in DOMAIN neg |-> [r \in DOMAIN ids |-> neg[f][r][ids[r]]]]]

SelFieldsInit ==
    /\ sel_model \in FieldModels
    /\ criterion \in FieldCriteria
    /\ layout = "rows"
    /\ has_multiple_inputs = TRUE
    /\ \E n \in FieldCounts, b \in 1..MaxRows, k \in 1..MaxRows :
          /\ b + b * k <= MaxRows
          /\ num_neg_examples = k
          /\ pos_inputs \in [1..n -> [1..b -> FieldValues]]
          /\ neg_inputs \in [1..n -> [1..b -> [1..k -> FieldValues]]]
    /\ losses = <<>>
    /\ max_loss_ids = <<>>
    /\ max_neg_inputs = [raised |-> "none", rows |-> <<>>]
    /\ spc = "call"

SelInit ==
    /\ sel_model \in Models
    /\ criterion \in Criteria
    /\ layout \in {"rows", "batches"}
    /\ has_multiple_inputs = FALSE
    /\ \E b \in 1..MaxRows, k \in 1..MaxRows :
          /\ b + b * k <= MaxRows
          /\ num_neg_examples = k
          /\ pos_inputs \in [1..b -> Examples]
          /\ neg_inputs \in IF layout = "rows"
                            THEN [1..b -> [1..k -> Examples]]
                            ELSE [1..k -> [1..b -> Examples]]
    /\ losses = <<>>
    /\ max_loss_ids = <<>>
    /\ max_neg_inputs = [raised |-> "none", rows |-> <<>>]
    /\ spc = "call"

GetMaxLossNegBatch ==
    /\ spc = "call"
    /\ LET l == IF has_multiple_inputs
                THEN LossMatrixFields(sel_model, criterion, pos_inputs, neg_inputs,
                                      num_neg_examples)
                ELSE LossMatrix(sel_model, criterion, pos_inputs, neg_inputs,
                                num_neg_examples)
           ids == [r \in DOMAIN l |-> ArgmaxRow(l[r])]
       IN  /\ losses' = l
           /\ max_loss_ids' = ids
           /\ max_neg_inputs' = IF has_multiple_inputs
                                 THEN GatherFields(neg_inputs, ids)
                                 ELSE GatherRows(neg_inputs, ids)
    /\ spc' = "returned"
    /\ UNCHANGED <<sel_model, criterion, layout, has_multiple_inputs, pos_inputs,
                   neg_inputs, num_neg_examples>>
    /\ UNCHANGED <<trainVars, valVars, expVars, wrkVars>>

SelNext == GetMaxLossNegBatch

SelStart == SelInit /\ TrainIdle /\ ValIdle /\ ExpIdle /\ WrkIdle

SpecSel == SelStart /\ [][SelNext]_vars

SelFieldsStart == SelFieldsInit /\ TrainIdle /\ ValIdle /\ ExpIdle /\ WrkIdle

SpecSelFields == SelFieldsStart /\ [][SelNext]_vars

----------------------------------------------------------------------------
(* lightning/metrics: average_precision, reciprocal_rank *)

\* The positions of a score vector by score descending, equal scores in index order.
RECURSIVE InsertByScore(_, _, _)
InsertByScore(order, j, predictions) ==
    IF order = <<>> THEN <<j>>
    ELSE IF predictions[Head(order)] >= predictions[j]
         THEN <<Head(order)>> \o InsertByScore(Tail(order), j, predictions)
         ELSE <<j>> \o order

RECURSIVE RankFrom(_, _, _)
RankFrom(order, j, predictions) ==
    IF j > Len(predictions) THEN order
    ELSE RankFrom(InsertByScore(order, j, predictions), j + 1, predictions)

Ranking(predictions) == RankFrom(<<>>, 1, predictions)

\* The labels in rank order.
RECURSIVE LabelsAt(_, _)
LabelsAt(order, labels) ==
    IF order = <<>> THEN <<>>
    ELSE <<labels[Head(order)]>> \o LabelsAt(Tail(order), labels)

RankedLabels(predictions, labels) == LabelsAt(Ranking(predictions), labels)

Hits(ranked, k) == Cardinality({j \in 1..k : ranked[j] > 0})

RECURSIVE PrecisionSum(_, _)
PrecisionSum(ranked, k) ==
    IF k = 0 THEN <<0, 1>>
    ELSE IF ranked[k] > 0
         THEN FracAdd(Frac(Hits(ranked, k), k), PrecisionSum(ranked, k - 1))
         ELSE PrecisionSum(ranked, k - 1)

\* average_precision(predictions, labels): the mean of precision@k over the
\* positions k of relevant documents; 0 without a relevant document.
AveragePrecision(predictions, labels) ==
    LET ranked == RankedLabels(predictions, labels)
        n == Len(ranked)
    IN  IF Hits(ranked, n) = 0 THEN <<0, 1>>
        ELSE FracDivInt(PrecisionSum(ranked, n), Hits(ranked, n))

\* reciprocal_rank(predictions, labels, k): 1 / rank of the first relevant
\* document within the top k; 0 if there is none.
ReciprocalRank(predictions, labels, k) ==
    LET ranked == RankedLabels(predictions, labels)
        top == {j \in DOMAIN ranked : j <= k /\ ranked[j] > 0}
    IN  IF top = {} THEN <<0, 1>>
        ELSE Frac(1, CHOOSE j \in top : \A j2 \in top : j <= j2)

----------------------------------------------------------------------------
(* lightning/base_ranker.py: BaseRanker.validation_epoch_end *)

MaxRecords == 3

QueryIds == {1, 2, 3}
Predictions == {1, 2}
Labels == {0, 1}
Workers == {1, 2}

\* rr_k: int = 10, and a cutoff that cuts
RRCutoffs == {1, 10}

EvalRecords == [q_id : QueryIds, pred : Predictions, label : Labels]

PresentQueries(records) == {records[j].q_id : j \in DOMAIN records}

\* The records a worker's loader yields: those of the queries on the worker.
RecordsOn(w, records, sh) == SelectSeq(records, LAMBDA r : sh[r.q_id] = w)

\* temp[q_id][0].append(pred); temp[q_id][1].append(label), temp a defaultdict:
\* a new key goes last, a known key keeps its place.
AddToGroupConsecutive(temp, r) ==
    IF temp # <<>> /\ temp[Len(temp)].q_id = r.q_id
    THEN [temp EXCEPT ![Len(temp)] =
            [q_id |-> r.q_id,
             predictions |-> Append(@.predictions, r.pred),
             labels |-> Append(@.labels, r.label)]]
    ELSE Append(temp, [q_id |-> r.q_id, predictions |-> <<r.pred>>, labels |-> <<r.label>>])
AddToGroup(temp, r) ==
    IF \E g \in DOMAIN temp : temp[g].q_id = r.q_id
    THEN [temp EXCEPT ![CHOOSE g \in DOMAIN temp : temp[g].q_id = r.q_id] =
            [q_id |-> r.q_id,
             predictions |-> Append(@.predictions, r.pred),
             labels |-> Append(@.labels, r.label)]]
    ELSE Append(temp, [q_id |-> r.q_id, predictions |-> <<r.pred>>, labels |-> <<r.label>>])

RECURSIVE GroupFrom(_, _, _)
GroupFrom(temp, records, j) ==
    IF j > Len(records) THEN temp
    ELSE GroupFrom(AddToGroup(temp, records[j]), records, j + 1)

\* for q_id, (pred,), label in zip(...): the loop of lines 186-191
GroupByQuery(records) == GroupFrom(<<>>, records, 1)

\* lines 193-200: per-group AP and RR@k, then the means
LocalMetrics(records, k) ==
    LET temp == GroupByQuery(records)
        aps == [g \in DOMAIN temp |-> AveragePrecision(temp[g].predictions, temp[g].labels)]
        rrs == [g \in DOMAIN temp |-> ReciprocalRank(temp[g].predictions, temp[g].labels, k)]
    IN  [val_map |-> TorchMean(aps), val_mrr |-> TorchMean(rrs)]

\* result.log(..., sync_dist=True, sync_dist_op='mean'): the mean of the
\* workers' values.
SyncDistSum(values) == TorchSum(values)
SyncDist(values) == TorchMean(values)

\* The values logged by one evaluation pass over the records.
LoggedMetrics(records, ddp, sh, k) ==
    IF ddp
    THEN LET local == [w \in Workers |-> LocalMetrics(RecordsOn(w, records, sh), k)]
         IN  [val_map |-> SyncDist([w \in Workers |-> local[w].val_map]),
              val_mrr |-> SyncDist([w \in Workers |-> local[w].val_mrr])]
    ELSE LocalMetrics(records, k)

\* Query ids are only compared for equality: the queries are numbered in the
\* order in which they first appear.
FirstAppearanceOrder(records) ==
    \A j \in DOMAIN records :
        records[j].q_id \in {1} \cup {records[l].q_id : l \in 1..(j - 1)}
                                \cup {records[l].q_id + 1 : l \in 1..(j - 1)}

ValInit ==
    /\ \E n \in 1..MaxRecords : val_results \in [1..n -> EvalRecords]
    /\ FirstAppearanceOrder(val_results)
    /\ uses_ddp \in BOOLEAN
    /\ rr_k \in RRCutoffs
    /\ shard \in [QueryIds -> Workers]
    /\ \A q \in QueryIds \ PresentQueries(val_results) : shard[q] = 1
    /\ IF uses_ddp
       THEN {shard[q] : q \in PresentQueries(val_results)} = Workers
       ELSE \A q \in QueryIds : shard[q] = 1
    /\ val_map = <<0, 1>>
    /\ val_mrr = <<0, 1>>
    /\ vpc = "collected"

ValidationEpochEnd ==
    /\ vpc = "collected"
    /\ \E m \in {LoggedMetrics(val_results, uses_ddp, shard, rr_k)} :
          /\ val_map' = m.val_map
          /\ val_mrr' = m.val_mrr
    /\ vpc' = "logged"
    /\ UNCHANGED <<val_results, uses_ddp, shard, rr_k>>
    /\ UNCHANGED <<trainVars, selVars, expVars, wrkVars>>

ValNext == ValidationEpochEnd

ValStart == ValInit /\ TrainIdle /\ SelIdle /\ ExpIdle /\ WrkIdle

SpecVal == ValStart /\ [][ValNext]_vars

SwapAt(records, j) ==
    [n \in DOMAIN records |->
        IF n = j THEN records[j + 1] ELSE IF n = j + 1 THEN records[j] ELSE records[n]]

\* Another evaluation pass over the same records, two neighbours of the
\* record sequence exchanged.
ReorderedPass ==
    /\ vpc \in {"logged", "relogged"}
    /\ \E j \in 1..(Len(val_results) - 1) :
          \E m \in {LoggedMetrics(SwapAt(val_results, j), uses_ddp, shard, rr_k)} :
              /\ val_results' = SwapAt(val_results, j)
              /\ val_map' = m.val_map
              /\ val_mrr' = m.val_mrr
    /\ vpc' = "relogged"
    /\ UNCHANGED <<uses_ddp, shard, rr_k>>
    /\ UNCHANGED <<trainVars, selVars, expVars, wrkVars>>

ReorderNext ==
    \/ ValidationEpochEnd
    \/ ReorderedPass

\* Passes on a single worker over the records in every order.
ReorderStart == ValStart /\ ~uses_ddp

SpecReorder == ReorderStart /\ [][ReorderNext]_vars

----------------------------------------------------------------------------
(* ranking_utils/util.py: read_predictions, write_trec_eval_file *)

MaxEntries == 3

ExportQueryIds == {"q1", "q2"}
ExportDocIds == {"d1", "d2", "d3"}
ExportScores == {1, 2}
Entries == [q_id : ExportQueryIds, doc_id : ExportDocIds, prediction : ExportScores]
RunName == "run"

\* The out_dict predict_and_save pickles: three parallel lists.
PredictionFile(es) ==
    [q_ids |-> [j \in DOMAIN es |-> es[j].q_id],
     doc_ids |-> [j \in DOMAIN es |-> es[j].doc_id],
     predictions |-> [j \in DOMAIN es |-> es[j].prediction]]

Min(a, b) == IF a < b THEN a ELSE b

\* zip(d["q_ids"], d["doc_ids"], d["predictions"]): as long as the shortest list
Zip(d) ==
    [j \in 1..Min(Len(d.q_ids), Min(Len(d.doc_ids), Len(d.predictions))) |->
        [q_id |-> d.q_ids[j], doc_id |-> d.doc_ids[j], prediction |-> d.predictions[j]]]

\* A dict is the sequence of its items in insertion order.
HasKey(d, key) == \E j \in DOMAIN d : d[j].key = key
GetItem(d, key) == d[CHOOSE j \in DOMAIN d : d[j].key = key].value
Keys(d) == [j \in DOMAIN d |-> d[j].key]

\* d[key] = value: a known key keeps its place, a new key goes last.
SetItem(d, key, value) ==
    IF HasKey(d, key)
    THEN [j \in DOMAIN d |-> IF d[j].key = key THEN [key |-> key, value |-> value] ELSE d[j]]
    ELSE Append(d, [key |-> key, value |-> value])

\* result[q_id]: a defaultdict(dict) makes the missing query's dict
DefaultGet(res, q_id) == IF HasKey(res, q_id) THEN GetItem(res, q_id) ELSE <<>>

\* result[q_id][doc_id] = prediction
StoreFirst(res, e) ==
    IF HasKey(DefaultGet(res, e.q_id), e.doc_id) THEN res
    ELSE SetItem(res, e.q_id, Append(DefaultGet(res, e.q_id),
                                     [key |-> e.doc_id, value |-> e.prediction]))
Store(res, e) ==
    SetItem(res, e.q_id, SetItem(DefaultGet(res, e.q_id), e.doc_id, e.prediction))

\* for q_id, doc_id, prediction in zip(...): the loop over one file
RECURSIVE StoreAll(_, _, _)
StoreAll(res, es, j) ==
    IF j > Len(es) THEN res ELSE StoreAll(Store(res, es[j]), es, j + 1)

\* sorted(keys, key=d.get, reverse=True) is stable: a key goes behind every key
\* sorted so far whose score is not smaller.
InsertReversed(ranking, key, d) ==
    LET p == Cardinality({j \in DOMAIN ranking : GetItem(d, ranking[j]) > GetItem(d, key)})
    IN  SubSeq(ranking, 1, p) \o <<key>> \o SubSeq(ranking, p + 1, Len(ranking))
Insert(ranking, key, d) ==
    LET p == Cardinality({j \in DOMAIN ranking : GetItem(d, ranking[j]) >= GetItem(d, key)})
    IN  SubSeq(ranking, 1, p) \o <<key>> \o SubSeq(ranking, p + 1, Len(ranking))

RECURSIVE SortedFrom(_, _, _, _)
SortedFrom(ranking, keys, j, d) ==
    IF j > Len(keys) THEN ranking
    ELSE SortedFrom(Insert(ranking, keys[j], d), keys, j + 1, d)

Sorted(keys, d) == SortedFrom(<<>>, keys, 1, d)

\* for rank, doc_id in enumerate(ranking, 1): writer.writerow([...])
QueryRows(q_id, docs, name) ==
    LET ranking == Sorted(Keys(docs), docs)
    IN  [rank \in DOMAIN ranking |->
            [q_id |-> q_id, q0 |-> "Q0", doc_id |-> ranking[rank], rank |-> rank,
             score |-> GetItem(docs, ranking[rank]), name |-> name]]

\* for q_id in predictions: the rows of the file, in writing order
RECURSIVE TrecRowsFrom(_, _, _)
TrecRowsFrom(predictions, j, name) ==
    IF j > Len(predictions) THEN <<>>
    ELSE QueryRows(predictions[j].key, predictions[j].value, name)
            \o TrecRowsFrom(predictions, j + 1, name)

\* Two prediction files whose entries are any sequence of at most MaxEntries.
ExpInit ==
    /\ \E n \in 0..MaxEntries : \E es \in [1..n -> Entries] : \E c \in 0..n :
          pred_files = <<PredictionFile(SubSeq(es, 1, c)),
                         PredictionFile(SubSeq(es, c + 1, n))>>
    /\ fidx = 0
    /\ result = <<>>
    /\ trec_rows = <<>>
    /\ xpc = "read"

\* read_predictions: one iteration of `for f in files`
ReadFile ==
    /\ xpc = "read"
    /\ fidx < Len(pred_files)
    /\ result' = StoreAll(result, Zip(pred_files[fidx + 1]), 1)
    /\ fidx' = fidx + 1
    /\ UNCHANGED <<pred_files, trec_rows, xpc>>
    /\ UNCHANGED <<trainVars, selVars, valVars, wrkVars>>

\* read_predictions: return result
ReadReturn ==
    /\ xpc = "read"
    /\ fidx = Len(pred_files)
    /\ xpc' = "write"
    /\ UNCHANGED <<pred_files, fidx, result, trec_rows>>
    /\ UNCHANGED <<trainVars, selVars, valVars, wrkVars>>

\* write_trec_eval_file(out_file, predictions, name)
WriteTrecEvalFile ==
    /\ xpc = "write"
    /\ trec_rows' = TrecRowsFrom(result, 1, RunName)
    /\ xpc' = "written"
    /\ UNCHANGED <<pred_files, fidx, result>>
    /\ UNCHANGED <<trainVars, selVars, valVars, wrkVars>>

ExpNext == ReadFile \/ ReadReturn \/ WriteTrecEvalFile

ExpStart == ExpInit /\ TrainIdle /\ SelIdle /\ ValIdle /\ WrkIdle

SpecExport == ExpStart /\ [][ExpNext]_vars

----------------------------------------------------------------------------
(* training.py: several worker processes, each running a training loop *)

Procs == {"worker0", "worker1"}
Dirs == {"dirA", "dirB"}

\* What prepare_logging returns for the worker's args.working_dir.
WorkerCkptDir(p) == CkptDir(<<w_dir[p]>>)

WrkInit ==
    /\ w_dir \in [Procs -> Dirs]
    /\ w_epochs \in [Procs -> 0..MaxEpochs]
    /\ w_epoch = [p \in Procs |-> 0]
    /\ w_pc = [p \in Procs |-> "prepare_logging"]
    /\ w_written = {}

\* logger, ckpt_dir = prepare_logging(args)
WorkerPrepareLogging(p) ==
    /\ w_pc[p] = "prepare_logging"
    /\ w_pc' = [w_pc EXCEPT ![p] = "for_epoch"]
    /\ UNCHANGED <<w_dir, w_epochs, w_epoch, w_written>>
    /\ UNCHANGED <<trainVars, selVars, valVars, expVars>>

\* one epoch over a non-empty loader, ending in save_checkpoint(state, epoch, ckpt_dir)
WorkerEpoch(p) ==
    /\ w_pc[p] = "for_epoch"
    /\ w_epoch[p] < w_epochs[p]
    /\ w_written' = w_written \cup {<<CkptFile(WorkerCkptDir(p), w_epoch[p]), p>>}
    /\ w_epoch' = [w_epoch EXCEPT ![p] = @ + 1]
    /\ UNCHANGED <<w_dir, w_epochs, w_pc>>
    /\ UNCHANGED <<trainVars, selVars, valVars, expVars>>

\* range(args.epochs) is exhausted
WorkerReturn(p) ==
    /\ w_pc[p] = "for_epoch"
    /\ w_epoch[p] = w_epochs[p]
    /\ w_pc' = [w_pc EXCEPT ![p] = "done"]
    /\ UNCHANGED <<w_dir, w_epochs, w_epoch, w_written>>
    /\ UNCHANGED <<trainVars, selVars, valVars, expVars>>

WrkNext == \E p \in Procs : WorkerPrepareLogging(p) \/ WorkerEpoch(p) \/ WorkerReturn(p)

WrkStart == WrkInit /\ TrainIdle /\ SelIdle /\ ValIdle /\ ExpIdle

SpecWorkers == WrkStart /\ [][WrkNext]_vars

----------------------------------------------------------------------------
(* Claims about the training loops *)

\* weights_00e.pt in the run's checkpoint directory, spelled out (e <= 9).
ExpectedCkptFile(e) == <<"wd", "ckpt", <<"weights_", <<0, 0, e>>, ".pt">>>>

\* s is the gradients of accumulate_batches consecutive batches of one epoch.
IsWindow(s) ==
    /\ Len(s) = accumulate_batches
    /\ \A k \in 1..Len(s) : s[k][1] = s[1][1] /\ s[k][2] = s[1][2] + (k - 1)

AppliedBatches == UNION {Range(steps[n]) : n \in DOMAIN steps}

\* C2: every optimizer.step() applies the summed gradients of exactly
\* accumulate_batches consecutive batches of one epoch, and the gradients are
\* reset right after the step: a gradient that was applied is never summed
\* into a later step.
C2_StepAppliesExactlyNBatches ==
    /\ \A n \in DOMAIN steps : IsWindow(steps[n])
    /\ \A n, m \in DOMAIN steps : n # m => Range(steps[n]) \cap Range(steps[m]) = {}
    /\ tpc \in {"for_epoch", "for_batch", "accumulate", "save", "saving", "done"}
          => Range(grad) \cap AppliedBatches = {}
    /\ tpc = "for_batch" /\ steps # <<>> /\ i >= 0 /\ (i + 1) % accumulate_batches = 0
          => grad = <<>>

\* C2 witness: a finished run that stepped in two epochs and dropped a tail.
C2_Witness ==
    /\ tpc = "done"
    /\ accumulate_batches >= 2
    /\ len_dl % accumulate_batches # 0
    /\ \E n, m \in DOMAIN steps : steps[n][1][1] # steps[m][1][1]

SaveEvents == SelectSeq(events, LAMBDA ev : ev.op = "save")

BackwardsBefore(p, e) ==
    {q \in 1..(p - 1) : events[q].op = "backward" /\ events[q].epoch = e}

\* C3: one checkpoint per epoch, written after all len_dl batches of the epoch
\* and before any batch of the next one; the epochs written are 0, 1, 2, ...
\* without a gap, and a run that returns has written exactly weights_000 ..
\* weights_{E-1}.
C3_OneCheckpointPerEpoch ==
    /\ Len(SaveEvents) = epoch
    /\ \A k \in DOMAIN SaveEvents : SaveEvents[k].epoch = k - 1
    /\ \A p \in DOMAIN events : events[p].op = "save" =>
          /\ {events[q].batch : q \in BackwardsBefore(p, events[p].epoch)} = 0..(len_dl - 1)
          /\ Cardinality(BackwardsBefore(p, events[p].epoch)) = len_dl
          /\ \A q \in DOMAIN events : events[q].op = "backward" =>
                (q < p <=> events[q].epoch <= events[p].epoch)
    /\ {n \in DOMAIN files : files[n].complete} = {ExpectedCkptFile(e) : e \in 0..(epoch - 1)}
    /\ tpc = "done" =>
          /\ epoch = args_epochs
          /\ DOMAIN files = {ExpectedCkptFile(e) : e \in 0..(args_epochs - 1)}

\* C3 witness: a run of three epochs of several batches has returned.
C3_Witness ==
    /\ tpc = "done"
    /\ args_epochs = 3
    /\ len_dl >= 2
    /\ Len(SaveEvents) = 3

\* The state the loop holds at the end of epoch e.
StateAtEndOf(e) ==
    [complete |-> TRUE, epoch |-> e, batch |-> len_dl - 1,
     state_dict |-> (e + 1) * (len_dl \div accumulate_batches),
     optimizer |-> (e + 1) * (len_dl \div accumulate_batches)]

C8_EarlierCheckpointsValid ==
    \A e \in 0..(epoch - 1) :
        /\ ExpectedCkptFile(e) \in DOMAIN files
        /\ files[ExpectedCkptFile(e)] = StateAtEndOf(e)

C8_NoRewrite ==
    \A n \in DOMAIN files :
        files[n].complete => n \in DOMAIN files' /\ files'[n] = files[n]

\* C8: wherever the run is (or was terminated) in epoch e, every epoch e' < e
\* has its checkpoint file, holding the state of the end of e'; a checkpoint
\* that was written is never written again.
C8_CheckpointsNeverMutated ==
    /\ []C8_EarlierCheckpointsValid
    /\ [][C8_NoRewrite]_vars

\* C8 witness: terminated during the checkpoint write of the third epoch.
C8_Witness ==
    /\ tpc = "killed"
    /\ epoch = 2
    /\ ExpectedCkptFile(2) \in DOMAIN files
    /\ ~files[ExpectedCkptFile(2)].complete
    /\ optimizer_steps >= 2

\* The mean of the losses ls of an epoch's batches.
MeanLoss(ls) == Frac(SumSeq(ls), Len(ls))

\* C12: every epoch appends exactly one row (epoch, loss) to the training log,
\* and the logged loss is the mean over the epoch's batches of the per-batch
\* loss: the rows are numbered by epoch, and once an epoch's batches are
\* processed its row is the last one and holds that mean.
C12_LoggedLossIsEpochMean ==
    /\ \A n \in DOMAIN train_log : train_log[n][1] = n - 1
    /\ tpc \in {"save", "saving"} =>
          /\ Len(train_log) = epoch + 1
          /\ train_log[epoch + 1] = <<epoch, MeanLoss(batch_losses)>>

\* C12 failing input: accumulate_batches = 2 and an epoch of two batches with
\* losses 1 and 2 (mean 3/2); the row logged for epoch 0 holds 3/4.
C12_Witness ==
    /\ tpc = "save" /\ epoch = 0
    /\ accumulate_batches = 2 /\ len_dl = 2
    /\ batch_losses = <<1, 2>>
    /\ train_log = << <<0, <<3, 4>>>> >>

\* C13: the gradient of every processed batch is applied by an
\* optimizer.step() before the gradients are reset: no zero_grad() discards
\* unapplied gradients, and none are left unapplied when the run has finished.
C13_EveryGradientApplied ==
    /\ dropped = <<>>
    /\ tpc = "done" => grad = <<>>

\* C13 failing input: 2 epochs of 3 batches with accumulate_batches = 2; batch 2
\* of epoch 0 was discarded by the zero_grad() that starts epoch 1, and batch 2
\* of epoch 1 is still unapplied when the function has returned.
C13_Witness ==
    /\ tpc = "done"
    /\ args_epochs = 2 /\ len_dl = 3 /\ accumulate_batches = 2
    /\ dropped = << << <<0, 2>> >> >>
    /\ grad = << <<1, 2>> >>
    /\ AppliedBatches = {<<0, 0>>, <<0, 1>>, <<1, 0>>, <<1, 1>>}

----------------------------------------------------------------------------
(* Claims about the hard-negative selector *)

\* The loss of a positive example against a negative example.
Loss(p, n) == Criterion(criterion, Model(sel_model, p), Model(sel_model, n))

B == Len(pos_inputs)
K == num_neg_examples

\* C1 as stated: neg_inputs is K batches of B rows; the selector returns B rows,
\* row r being row r of one of the batches, of loss >= that of row r of every
\* batch.
C1_HardestOfKBatches ==
    spc = "returned" /\ layout = "batches" =>
        /\ max_neg_inputs.raised = "none"
        /\ Len(max_neg_inputs.rows) = B
        /\ \A r \in 1..B :
              /\ \E k \in 1..K : max_neg_inputs.rows[r] = neg_inputs[k][r]
              /\ \A k \in 1..K :
                    Loss(pos_inputs[r], max_neg_inputs.rows[r])
                        >= Loss(pos_inputs[r], neg_inputs[k][r])

\* C1 amended: neg_inputs is B tensors of K rows, tensor r holding the K
\* candidates of positive r; the selector returns B rows, row r being one of
\* the candidates of positive r, of loss >= that of every candidate of r.
C1_HardestOfRowCandidates ==
    spc = "returned" /\ layout = "rows" =>
        /\ max_neg_inputs.raised = "none"
        /\ Len(max_neg_inputs.rows) = B
        /\ \A r \in 1..B :
              /\ \E k \in 1..K : max_neg_inputs.rows[r] = neg_inputs[r][k]
              /\ \A k \in 1..K :
                    Loss(pos_inputs[r], max_neg_inputs.rows[r])
                        >= Loss(pos_inputs[r], neg_inputs[r][k])

\* C1 witness: one positive and three candidates of losses 0, 1, 0 under the
\* margin loss: the second candidate is returned.
C1_Witness ==
    /\ spc = "returned" /\ layout = "rows"
    /\ sel_model = "identity" /\ criterion = [kind |-> "hinge", margin |-> 0]
    /\ pos_inputs = <<1>> /\ neg_inputs = <<<<0, 2, 1>>>>
    /\ losses = <<<<0, 1, 0>>>>
    /\ max_neg_inputs = [raised |-> "none", rows |-> <<2>>]

\* C10 as stated: with neg_inputs K batches of B rows, entry (r, k) of the
\* loss matrix is the loss of positive r against row r of batch k, and the row
\* gathered for (r, k) is row r of batch k.
C10_MatrixOfKBatches ==
    spc = "returned" /\ layout = "batches" =>
        /\ DOMAIN losses = 1..B
        /\ \A r \in 1..B :
              /\ DOMAIN losses[r] = 1..K
              /\ \A k \in 1..K : losses[r][k] = Loss(pos_inputs[r], neg_inputs[k][r])
        /\ max_neg_inputs.raised = "none"
        /\ \A r \in 1..B : max_neg_inputs.rows[r] = neg_inputs[max_loss_ids[r]][r]

\* C10 amended: with neg_inputs B tensors of K rows (tensor r: the candidates
\* of positive r), entry (r, k) of the B x K loss matrix is the loss of
\* positive r against row k of tensor r, and the row gathered for (r, k) is row
\* k of tensor r.
C10_MatrixOfRowCandidates ==
    spc = "returned" /\ layout = "rows" =>
        /\ DOMAIN losses = 1..B
        /\ \A r \in 1..B :
              /\ DOMAIN losses[r] = 1..K
              /\ \A k \in 1..K : losses[r][k] = Loss(pos_inputs[r], neg_inputs[r][k])
        /\ max_neg_inputs.raised = "none"
        /\ \A r \in 1..B : max_neg_inputs.rows[r] = neg_inputs[r][max_loss_ids[r]]

\* C10 witness: two positives with two candidates each, the two rows of the
\* matrix differing and their maxima in different columns.
C10_Witness ==
    /\ spc = "returned" /\ layout = "rows"
    /\ B = 2 /\ K = 2
    /\ losses[1] # losses[2]
    /\ max_loss_ids = <<2, 1>>
    /\ neg_inputs[1] # neg_inputs[2]
    /\ neg_inputs[1][1] # neg_inputs[1][2]

\* The loss of positive row r against candidate k of row r, every field taken
\* from that row and that candidate.
FieldsLoss(r, k) ==
    Criterion(criterion,
              FieldModel(sel_model, [f \in DOMAIN pos_inputs |-> pos_inputs[f][r]]),
              FieldModel(sel_model, [f \in DOMAIN neg_inputs |-> neg_inputs[f][r][k]]))

\* C11: with multi-field inputs the selector returns one tensor per field, of B
\* rows each, and row r of every field is taken from the same candidate of row
\* r, the arg-max of row r's losses.
C11_FieldsShareArgmaxCandidate ==
    spc = "returned" /\ has_multiple_inputs =>
        /\ max_neg_inputs.raised = "none"
        /\ DOMAIN max_neg_inputs.rows = DOMAIN neg_inputs
        /\ \A f \in DOMAIN neg_inputs : DOMAIN max_neg_inputs.rows[f] = DOMAIN pos_inputs[1]
        /\ \A r \in DOMAIN pos_inputs[1] :
              /\ max_loss_ids[r] \in 1..K
              /\ \A f \in DOMAIN neg_inputs :
                    max_neg_inputs.rows[f][r] = neg_inputs[f][r][max_loss_ids[r]]
              /\ \A k \in 1..K : FieldsLoss(r, max_loss_ids[r]) >= FieldsLoss(r, k)

\* C11 witness: two fields, two positives with two candidates each; the two
\* rows pick different candidates, and the picked candidate of row 1 differs
\* from the other one in both fields.
C11_Witness ==
    /\ spc = "returned" /\ has_multiple_inputs
    /\ Len(neg_inputs) = 2 /\ Len(pos_inputs[1]) = 2 /\ K = 2
    /\ max_loss_ids = <<2, 1>>
    /\ \A f \in 1..2 : neg_inputs[f][1][1] # neg_inputs[f][1][2]
    /\ \A f \in 1..2 : max_neg_inputs.rows[f][1] = neg_inputs[f][1][2]

----------------------------------------------------------------------------
(* Claims about validation_epoch_end *)

\* The sum of f[x] over the x of S.
RECURSIVE FracSumOver(_, _)
FracSumOver(S, f) ==
    IF S = {} THEN <<0, 1>>
    ELSE LET x == CHOOSE y \in S : TRUE
         IN  FracAdd(f[x], FracSumOver(S \ {x}, f))

RecordsOf(q) == SelectSeq(val_results, LAMBDA r : r.q_id = q)

PredictionsOf(q) == [j \in DOMAIN RecordsOf(q) |-> RecordsOf(q)[j].pred]
LabelsOf(q) == [j \in DOMAIN RecordsOf(q) |-> RecordsOf(q)[j].label]

QueryAP(q) == AveragePrecision(PredictionsOf(q), LabelsOf(q))
QueryRR(q) == ReciprocalRank(PredictionsOf(q), LabelsOf(q), rr_k)

\* The mean of the per-query metric over a set of queries, each counted once.
MeanAP(Q) == FracDivInt(FracSumOver(Q, [q \in Q |-> QueryAP(q)]), Cardinality(Q))
MeanRR(Q) == FracDivInt(FracSumOver(Q, [q \in Q |-> QueryRR(q)]), Cardinality(Q))

AllQueries == PresentQueries(val_results)
QueriesOn(w) == {q \in AllQueries : shard[q] = w}

WorkerMeanAP(w) == MeanAP(QueriesOn(w))
WorkerMeanRR(w) == MeanRR(QueriesOn(w))

\* C4 as stated: the logged val_map / val_mrr is the mean of the per-query AP /
\* RR@k over all distinct queries, on one worker and over several workers.
C4_LoggedIsMeanOverQueries ==
    vpc = "logged" => val_map = MeanAP(AllQueries) /\ val_mrr = MeanRR(AllQueries)

\* C4 amended: on one worker the logged value is the mean over all distinct
\* queries; over several workers it is the mean of the workers' means, which
\* is the mean over all queries when every worker holds the same number of
\* queries.
C4_LoggedIsMeanOfWorkerMeans ==
    vpc = "logged" =>
        /\ ~uses_ddp => val_map = MeanAP(AllQueries) /\ val_mrr = MeanRR(AllQueries)
        /\ uses_ddp =>
              /\ val_map = FracDivInt(FracSumOver(Workers, [w \in Workers |-> WorkerMeanAP(w)]),
                                     Cardinality(Workers))
              /\ val_mrr = FracDivInt(FracSumOver(Workers, [w \in Workers |-> WorkerMeanRR(w)]),
                                     Cardinality(Workers))
        /\ (\A w1, w2 \in Workers : Cardinality(QueriesOn(w1)) = Cardinality(QueriesOn(w2)))
              => val_map = MeanAP(AllQueries) /\ val_mrr = MeanRR(AllQueries)

\* C4 witness: two workers with one query each, the records of the queries
\* interleaved, the two queries of different AP.
C4_Witness ==
    /\ vpc = "logged" /\ uses_ddp
    /\ Cardinality(QueriesOn(1)) = 1 /\ Cardinality(QueriesOn(2)) = 1
    /\ Len(val_results) = 3
    /\ val_results[1].q_id = val_results[3].q_id
    /\ val_results[1].q_id # val_results[2].q_id
    /\ WorkerMeanAP(1) # WorkerMeanAP(2)
    /\ val_map = <<3, 4>>

\* Two documents of one query with the same score, one relevant and one not.
MixedTie(records) ==
    \E a, b \in DOMAIN records :
        /\ records[a].q_id = records[b].q_id
        /\ records[a].pred = records[b].pred
        /\ (records[a].label > 0) # (records[b].label > 0)

C5_SamePass == vpc \in {"logged", "relogged"} /\ vpc' = "relogged"

\* C5 as stated: every permutation of the records, equal scores included,
\* gives the same MAP and MRR@k.
C5_PermutationInvariant ==
    [][C5_SamePass => val_map' = val_map /\ val_mrr' = val_mrr]_vars

\* C5 amended: every permutation of the records gives the same MAP and MRR@k
\* when no two documents of one query, one relevant and one not, have equal
\* scores.
C5_PermutationInvariantWithoutMixedTies ==
    [][C5_SamePass /\ ~MixedTie(val_results)
          => val_map' = val_map /\ val_mrr' = val_mrr]_vars

\* C5 witness: a second pass over reordered records: one query with two
\* documents of equal score and equal label, its records interleaved with
\* those of a second query.
C5_Witness ==
    /\ vpc = "relogged" /\ ~uses_ddp
    /\ ~MixedTie(val_results)
    /\ val_results = <<[q_id |-> 1, pred |-> 1, label |-> 0],
                       [q_id |-> 2, pred |-> 2, label |-> 1],
                       [q_id |-> 1, pred |-> 1, label |-> 0]>>
    /\ val_map = <<1, 2>>

----------------------------------------------------------------------------
(* Claims about read_predictions and write_trec_eval_file *)

\* The (query, document) pairs of a table, and a pair's score in it.
TablePairs(res) ==
    UNION {{<<res[a].key, res[a].value[b].key>> : b \in DOMAIN res[a].value} : a \in DOMAIN res}
TableSize(res) == IF res = <<>> THEN 0 ELSE Len(Cat([a \in DOMAIN res |-> res[a].value]))
TableScore(res, pair) == GetItem(GetItem(res, pair[1]), pair[2])

\* The entries of the first k files, in read order.
RECURSIVE ReadOrder(_)
ReadOrder(k) == IF k = 0 THEN <<>> ELSE ReadOrder(k - 1) \o Zip(pred_files[k])

PairOf(e) == <<e.q_id, e.doc_id>>
PairsIn(es) == {PairOf(es[j]) : j \in DOMAIN es}
LastOccurrence(es, pair) ==
    LET last == CHOOSE j \in DOMAIN es :
                    /\ PairOf(es[j]) = pair
                    /\ \A l \in DOMAIN es : PairOf(es[l]) = pair => l <= j
    IN  es[last].prediction

C7_TableIsUnionLastWins ==
    LET es == ReadOrder(fidx)
    IN  /\ TablePairs(result) = PairsIn(es)
        /\ TableSize(result) = Cardinality(PairsIn(es))
        /\ \A pair \in PairsIn(es) : TableScore(result, pair) = LastOccurrence(es, pair)

C7_LaterFileKeepsOtherEntries ==
    fidx' = fidx + 1 =>
        \A pair \in TablePairs(result) \ PairsIn(Zip(pred_files[fidx + 1])) :
            /\ pair \in TablePairs(result')
            /\ TableScore(result', pair) = TableScore(result, pair)

\* C7: after any number of files, the table's keys are exactly the pairs read so
\* far, each once, each holding the score of its last occurrence in read order;
\* reading a file changes no entry whose pair the file does not hold.
C7_ReadPredictionsMergesLastWins ==
    []C7_TableIsUnionLastWins /\ [][C7_LaterFileKeepsOtherEntries]_vars

\* Both files were read, three entries in all, one pair recurring across the
\* files with another score, and the merged table of two entries is returned.
C7_Witness ==
    /\ xpc = "write"
    /\ fidx = 2
    /\ \E a \in DOMAIN Zip(pred_files[1]), b \in DOMAIN Zip(pred_files[2]) :
          /\ PairOf(Zip(pred_files[1])[a]) = PairOf(Zip(pred_files[2])[b])
          /\ Zip(pred_files[1])[a].prediction # Zip(pred_files[2])[b].prediction
    /\ Len(ReadOrder(2)) = 3
    /\ TableSize(result) = 2

RowsOf(q) == {r \in DOMAIN trec_rows : trec_rows[r].q_id = q}
DocPosition(q, doc) ==
    CHOOSE b \in DOMAIN GetItem(result, q) : GetItem(result, q)[b].key = doc

\* C6: the file has one row per (query, document) entry of the table, with the
\* entry's score; a query's rows are contiguous; its ranks count 1, 2, ..., n in
\* row order; its scores never increase; equal scores keep insertion order.
C6_TrecRowsRankedStably ==
    xpc = "written" =>
        /\ Len(trec_rows) = TableSize(result)
        /\ \A pair \in TablePairs(result) :
              \E r \in DOMAIN trec_rows :
                  /\ trec_rows[r].q_id = pair[1]
                  /\ trec_rows[r].doc_id = pair[2]
                  /\ trec_rows[r].score = TableScore(result, pair)
                  /\ \A s \in DOMAIN trec_rows :
                        (trec_rows[s].q_id = pair[1] /\ trec_rows[s].doc_id = pair[2]) => s = r
        /\ \A r \in DOMAIN trec_rows, s \in DOMAIN trec_rows, t \in DOMAIN trec_rows :
              (r < s /\ s < t /\ trec_rows[r].q_id = trec_rows[t].q_id)
                  => trec_rows[s].q_id = trec_rows[r].q_id
        /\ \A r \in DOMAIN trec_rows :
              trec_rows[r].rank = 1 + Cardinality({s \in RowsOf(trec_rows[r].q_id) : s < r})
        /\ \A r \in DOMAIN trec_rows, s \in DOMAIN trec_rows :
              (r < s /\ trec_rows[r].q_id = trec_rows[s].q_id) =>
                  /\ trec_rows[r].score >= trec_rows[s].score
                  /\ trec_rows[r].score = trec_rows[s].score =>
                        DocPosition(trec_rows[r].q_id, trec_rows[r].doc_id)
                            < DocPosition(trec_rows[s].q_id, trec_rows[s].doc_id)

\* A written file of three rows over two queries, one query holding two
\* documents of equal score.
C6_Witness ==
    /\ xpc = "written"
    /\ Len(trec_rows) = 3
    /\ \E r \in DOMAIN trec_rows, s \in DOMAIN trec_rows :
          /\ r < s
          /\ trec_rows[r].q_id = trec_rows[s].q_id
          /\ trec_rows[r].score = trec_rows[s].score
    /\ \E r \in DOMAIN trec_rows, s \in DOMAIN trec_rows :
          trec_rows[r].q_id # trec_rows[s].q_id

----------------------------------------------------------------------------
(* Claims about several workers writing checkpoints *)

WrittenBy(p) == {f[1] : f \in {x \in w_written : x[2] = p}}

\* C9 as stated: whatever working_dir each worker is given, no checkpoint file
\* is written by two workers.
C9_WorkersWriteDisjointNames ==
    \A p1 \in Procs, p2 \in Procs : p1 # p2 => WrittenBy(p1) \cap WrittenBy(p2) = {}

\* C9 amended: two workers given different working directories write disjoint
\* checkpoint files.
C9_DisjointNamesInDifferentDirs ==
    \A p1 \in Procs, p2 \in Procs :
        (p1 # p2 /\ w_dir[p1] # w_dir[p2]) => WrittenBy(p1) \cap WrittenBy(p2) = {}

\* Two workers in different directories have both saved the checkpoint of epoch 0.
C9_Witness ==
    \E p1 \in Procs, p2 \in Procs :
        /\ w_dir[p1] # w_dir[p2]
        /\ CkptFile(WorkerCkptDir(p1), 0) \in WrittenBy(p1)
        /\ CkptFile(WorkerCkptDir(p2), 0) \in WrittenBy(p2)

====
